---- MODULE Spec2Model ----
(***************************************************************************)
(* The repository-to-knowledge pipeline of agent-dev-assistence-model:     *)
(* session lifecycle, session index registry and index build; embed_texts; *)
(* split_code_windows, ingest_repo and the Sizer; the policy decider;      *)
(* HybridRetriever.search; RAGAnswerer.answer.                             *)
(*                                                                         *)
(* The repository declares its components in agent definitions: the steps  *)
(* of index_repo and ingest_repo, the limits of embed_texts and the rules   *)
(* of the policy decider are taken from there.  The driver (ingest /        *)
(* size_and_decide / index / ask), the session state machine, the TTL       *)
(* bookkeeping, the Sizer and the bodies of the declared functions have no  *)
(* code in the repository's files at hand and are modelled from the         *)
(* specification text.                                                      *)
(***************************************************************************)
EXTENDS Integers, Sequences, FiniteSets, TLC

(* ------------------------------------------------------------------ *)
(* Bounds of the model                                                 *)
(* ------------------------------------------------------------------ *)
MaxTime == 2        \* the clock runs 0..MaxTime
SessionTTL == 1     \* SESSION_TTL_MINUTES, scaled to clock ticks
NBatches == 1       \* embedding batches of one index build
MaxBuilds == 2      \* index builds started in one behaviour

MaxTexts == 3       \* longest input list of one embed_texts call
MaxBatch == 2       \* largest batch size tried (the client uses 4-8)
MaxInflight == 2    \* embedding calls in flight at once
CharBudget == 1     \* characters kept of one input, scaled

(* ------------------------------------------------------------------ *)
(* Program constants                                                   *)
(* ------------------------------------------------------------------ *)
MaxTries == 5       \* "Retry exponential backoff on 429/5xx, up to 5 tries"

Sessions == {"s1"}
Workers == {"w1", "w2"}
NoSession == "none"
NoRet == 0

States == {"EMPTY", "INGESTED", "SIZED_AND_DECIDED", "INDEXED", "READY", "EXPIRED"}

VARIABLES
    now,         \* app-layer clock
    state,       \* session id -> state of the session state machine
    lastAccess,  \* session id -> time of the last successful access
    useEmb,      \* session id -> use_embeddings of the last decision
    registries,  \* SessionIndex.registries, as a set of [sid, ret] entries
    builds,      \* worker -> the index_repo call it is running
    nextRet,     \* retrievers constructed so far (ids 1..nextRet)
    configured,  \* an embedding backend is configured and reachable
    last,        \* outcome of the most recent driver call
    hist,        \* session id -> driver operations that have succeeded on it
    texts,       \* embed_texts: the input list
    bsize,       \* embed_texts: the batch size of this call
    inflight,    \* embed_texts: batches issued and not yet answered
    done,        \* embed_texts: batch number -> vectors the backend returned
    arrival,     \* embed_texts: batch numbers in the order their answers came
    out,         \* embed_texts: the returned list
    epc,         \* embed_texts: "run", "done" or "failed"
    nlines,      \* split_code_windows: number of lines of the text
    chunk_loc,   \* split_code_windows: lines of one window
    overlap_loc, \* split_code_windows: lines two neighbouring windows share
    windows,     \* split_code_windows: the returned <<start_line, end_line>> list
    cpc,         \* split_code_windows: "idle", "run" or "done"
    files,       \* ingest_repo / measure: the enumerated files, in order
    fidx,        \* ingest_repo / measure: position of the loop in files
    chunks,      \* ingest_repo: the chunks emitted so far
    skipped,     \* ingest_repo: the files left out, each with its reason
    file_count,  \* measure: files measured so far
    unreadable,  \* measure: files skipped and counted separately
    chunk_estimate, \* measure: SizerReport.chunk_estimate so far
    ipc,         \* "idle", "ingest", "measure" or "done"
    report,      \* policy decider: sizer report and session context read
    decision,    \* policy decider: the decision written
    ppc,         \* policy decider: "idle", "run" or "done"
    squery,      \* search: the candidate rankings of the query, the modes and k
    results,     \* search: the returned list of [chunk_id, score]
    spc,         \* search: "idle", "run" or "done"
    rinput,      \* answer: retrieved chunks, neighbor chunks, code_map?, budget
    pack,        \* answer: the chunks of the assembled doc pack, in order
    response,    \* answer: the RAGResponse (sources, token_count) and the model
    rpc,         \* answer: "idle", "run" or "done"
    code_map,    \* query: CodeMap.deps as a set of <<path, imported path>>
    expanded,    \* query: the list after neighbor expansion and re-sort
    reranked,    \* query: outcome of the optional reranking step
    returned,    \* query: the list handed to the caller
    qpc,         \* query: "idle", "search", "expand", "rerank" or "returned"
    strict,      \* chat page: development build, reactStrictMode on
    mounted,     \* chat page: the Home component is mounted
    messages,    \* chat page: useState messages
    isStreaming, \* chat page: useState isStreaming
    eventSourceRef, \* chat page: eventSourceRef.current, 0 for null
    eventSources, \* chat page: every EventSource created, "open" or "closed"
    strictModeGuard, \* chat page: strictModeGuard.current
    fetches,     \* chat page: fetchBackendStatus calls not yet answered
    backendStatus, \* chat page: useState backendStatus, "null" or "set"
    preq,        \* chat proxy: the request, and what the backend does with it
    pres,        \* chat proxy: the response object res
    preader,     \* chat proxy: chunks read so far, and the decoder's pending byte
    hpc         \* chat proxy: "idle", "entry", "fetch", "read", "end", "catch", "done"

sessVars == <<now, state, lastAccess, useEmb, registries, builds, nextRet,
              configured, last, hist>>
embVars == <<texts, bsize, inflight, done, arrival, out, epc>>
chunkVars == <<nlines, chunk_loc, overlap_loc, windows, cpc>>
ingVars == <<files, fidx, chunks, skipped, file_count, unreadable,
             chunk_estimate, ipc>>
polVars == <<report, decision, ppc>>
searchVars == <<squery, results, spc>>
ragVars == <<rinput, pack, response, rpc>>
queryVars == <<code_map, expanded, reranked, returned, qpc>>
chatVars == <<strict, mounted, messages, isStreaming, eventSourceRef,
              eventSources, strictModeGuard, fetches, backendStatus>>
proxyVars == <<preq, pres, preader, hpc>>
vars == <<sessVars, embVars, chunkVars, ingVars, polVars, searchVars, ragVars,
          queryVars, chatVars, proxyVars>>

\* what the session operations leave alone
nonSessVars == <<embVars, chunkVars, ingVars, polVars, searchVars, ragVars,
                 queryVars, chatVars, proxyVars>>
\* what embed_texts leaves alone
nonEmbVars == <<sessVars, chunkVars, ingVars, polVars, searchVars, ragVars,
                queryVars, chatVars, proxyVars>>
\* what split_code_windows leaves alone
nonChunkVars == <<sessVars, embVars, ingVars, polVars, searchVars, ragVars,
                  queryVars, chatVars, proxyVars>>
\* what ingest_repo and measure leave alone
nonIngVars == <<sessVars, embVars, chunkVars, polVars, searchVars, ragVars,
                queryVars, chatVars, proxyVars>>
\* what the policy decider leaves alone
nonPolVars == <<sessVars, embVars, chunkVars, ingVars, searchVars, ragVars,
                queryVars, chatVars, proxyVars>>
\* what search leaves alone
nonSearchVars == <<sessVars, embVars, chunkVars, ingVars, polVars, ragVars,
                   queryVars, chatVars, proxyVars>>
\* what answer leaves alone
nonRagVars == <<sessVars, embVars, chunkVars, ingVars, polVars, searchVars,
                queryVars, chatVars, proxyVars>>
\* what neighbor expansion and reranking leave alone
nonQueryVars == <<sessVars, embVars, chunkVars, ingVars, polVars, searchVars,
                  ragVars, chatVars, proxyVars>>
\* what the chat page leaves alone
nonChatVars == <<sessVars, embVars, chunkVars, ingVars, polVars, searchVars,
                 ragVars, queryVars, proxyVars>>
\* what the chat proxy handler leaves alone
nonProxyVars == <<sessVars, embVars, chunkVars, ingVars, polVars, searchVars,
                  ragVars, queryVars, chatVars>>

Idle == [pc |-> "idle", sid |-> NoSession, batch |-> 0, tries |-> 0,
         ret |-> NoRet, gone |-> FALSE, emb |-> FALSE]

Result(op, s, res) == [op |-> op, sid |-> s, res |-> res]

(* ------------------------------------------------------------------ *)
(* SessionIndex: registry of retrievers per session id                 *)
(* ------------------------------------------------------------------ *)
Entries(reg, s) == {e \in reg : e.sid = s}

\* a put that adds the binding and leaves an old one in place
PutEntryAdd(reg, s, r) == reg \cup {[sid |-> s, ret |-> r]}

\* registries[session_id] = retriever: the new binding replaces any old one
PutEntry(reg, s, r) == (reg \ Entries(reg, s)) \cup {[sid |-> s, ret |-> r]}

\* registries.pop(session_id, None)
DropEntry(reg, s) == reg \ Entries(reg, s)

\* registries.get(session_id): the retriever bound to s, or None
Lookup(reg, s) ==
    IF Entries(reg, s) = {} THEN NoRet ELSE (CHOOSE e \in Entries(reg, s) : TRUE).ret

\* the last access of a session is older than the configured TTL at time t
Stale(la, t) == t - la > SessionTTL

\* get: "not found" for an absent or expired session, never a rebuild
Get(reg, la, t, s) == IF Stale(la[s], t) THEN NoRet ELSE Lookup(reg, s)

\* a sweep that clears the registry whatever the last access was
SweepAll(reg, la, t) == {}

\* TTL sweep: drop the ANN index of every session whose TTL has run out
SweepEntries(reg, la, t) == {e \in reg : ~Stale(la[e.sid], t)}

\* TTL expiry: a live session whose TTL has run out is EXPIRED
ExpireSessions(st, la, t) ==
    [s \in Sessions |->
        IF st[s] \notin {"EMPTY", "EXPIRED"} /\ Stale(la[s], t)
        THEN "EXPIRED" ELSE st[s]]

(* ------------------------------------------------------------------ *)
(* Driver preconditions (state machine of a session)                   *)
(* ------------------------------------------------------------------ *)
\* variants that let a call through out of order
CanSizeAlways(st) == TRUE
CanAskIndexed(st) == st \in {"INDEXED", "READY"}

CanSize(st) == st = "INGESTED"
CanIndex(st) == st = "SIZED_AND_DECIDED"
CanAsk(st) == st = "READY"

\* a finished build that marks the session INDEXED whatever its state was
AfterPutAlways(st) == "INDEXED"

\* state after the retriever of an index call was registered
AfterPut(st) == IF st = "SIZED_AND_DECIDED" THEN "INDEXED" ELSE st
\* state after the index call returned
AfterReturn(st) == IF st = "INDEXED" THEN "READY" ELSE st

Touch(la, s) == [la EXCEPT ![s] = now]

\* builds of session s are marked once the session is dropped or expired
MarkGone(b, gone) ==
    [w \in Workers |->
        IF b[w].pc # "idle" /\ b[w].sid \in gone
        THEN [b[w] EXCEPT !.gone = TRUE] ELSE b[w]]

(* ------------------------------------------------------------------ *)
(* Initial state                                                       *)
(* ------------------------------------------------------------------ *)
SessInit ==
    /\ now = 0
    /\ state = [s \in Sessions |-> "EMPTY"]
    /\ lastAccess = [s \in Sessions |-> 0]
    /\ useEmb = [s \in Sessions |-> FALSE]
    /\ registries = {}
    /\ builds = [w \in Workers |-> Idle]
    /\ nextRet = 0
    /\ configured \in BOOLEAN
    /\ last = Result("none", NoSession, "none")
    /\ hist = [s \in Sessions |-> {}]

\* no embed_texts call of its own is in progress
EmbIdle ==
    /\ texts = <<>>
    /\ bsize = 1
    /\ inflight = {}
    /\ done = <<>>
    /\ arrival = <<>>
    /\ out = <<>>
    /\ epc = "idle"

\* no split_code_windows call of its own is in progress
ChunkIdle ==
    /\ nlines = 0
    /\ chunk_loc = 1
    /\ overlap_loc = 0
    /\ windows = <<>>
    /\ cpc = "idle"

\* no ingest_repo or measure pass of its own is in progress
IngIdle ==
    /\ files = <<>>
    /\ fidx = 0
    /\ chunks = <<>>
    /\ skipped = <<>>
    /\ file_count = 0
    /\ unreadable = 0
    /\ chunk_estimate = 0
    /\ ipc = "idle"

NoDecision == [use_embeddings |-> FALSE, backend |-> "none", reasons |-> <<>>]

\* no policy decision of its own is being taken
PolIdle ==
    /\ report = [loc_total |-> 0, file_count |-> 0, vector_count_estimate |-> 0,
                 estimated_tokens_repo |-> 0, bytes_total |-> 0,
                 expected_concurrent_sessions |-> 1,
                 reuse_repo_across_sessions |-> FALSE]
    /\ decision = NoDecision
    /\ ppc = "idle"

\* no search of its own is in progress
SearchIdle ==
    /\ squery = [lexical |-> <<>>, dense |-> <<>>, vectors |-> FALSE,
                 embed_fn |-> FALSE, bm25 |-> TRUE, k |-> 1]
    /\ results = <<>>
    /\ spc = "idle"

NoResponse == [sources |-> <<>>, token_count |-> 0, model |-> "none"]

\* no answer call of its own is in progress
RagIdle ==
    /\ rinput = [hits |-> <<>>, neighbors |-> <<>>, code_map |-> FALSE, budget |-> 0]
    /\ pack = <<>>
    /\ response = NoResponse
    /\ rpc = "idle"

NoRerank == [outcome |-> "none", error |-> "none", logged |-> FALSE]

\* no query of its own is in progress
QueryIdle ==
    /\ code_map = {}
    /\ expanded = <<>>
    /\ reranked = NoRerank
    /\ returned = <<>>
    /\ qpc = "idle"

\* no chat page is mounted
ChatIdle ==
    /\ strict = FALSE
    /\ mounted = FALSE
    /\ messages = <<>>
    /\ isStreaming = FALSE
    /\ eventSourceRef = 0
    /\ eventSources = <<>>
    /\ strictModeGuard = FALSE
    /\ fetches = 0
    /\ backendStatus = "null"

\* res before the handler has touched it
FreshResponse ==
    [statusCode |-> 200, contentType |-> "none", headersSent |-> FALSE,
     sentStatus |-> 0, body |-> <<>>, json |-> "none", ended |-> FALSE,
     thrown |-> FALSE]

\* no request is being handled
ProxyIdle ==
    /\ preq = [method |-> "GET", backend |-> "ok", chunks |-> <<>>, fail_at |-> -1]
    /\ pres = FreshResponse
    /\ preader = [read |-> 0, pending |-> FALSE]
    /\ hpc = "idle"


(* ------------------------------------------------------------------ *)
(* Policy decider: use_embeddings, backend, reasons                    *)
(* ------------------------------------------------------------------ *)
LocTotalMin == 80000            \* loc_total >= 80000
FileCountMin == 1500            \* file_count >= 1500
VectorCountMin == 8000          \* vector_count_estimate >= 8000
TokensMin == 1500000            \* estimated_tokens_repo >= 1500000
BackendVectorMin == 50000       \* vector_count_estimate >= 50000
BackendBytesMin == 1500000000   \* bytes_total >= 1500000000
SessionsMin == 3                \* expected_concurrent_sessions >= 3
SessionsVectorMin == 20000      \* ... AND vector_count_estimate >= 20000

\* a rule that fires only above its threshold
UseEmbeddingsExclusive(r) ==
    \/ r.loc_total > LocTotalMin
    \/ r.file_count > FileCountMin
    \/ r.vector_count_estimate > VectorCountMin
    \/ r.estimated_tokens_repo > TokensMin

\* use_embeddings = TRUE if ANY: ...
UseEmbeddings(r) ==
    \/ r.loc_total >= LocTotalMin
    \/ r.file_count >= FileCountMin
    \/ r.vector_count_estimate >= VectorCountMin
    \/ r.estimated_tokens_repo >= TokensMin

\* a rule that takes the session count alone as enough
RemoteBackendSessionsAlone(r) ==
    \/ r.vector_count_estimate >= BackendVectorMin
    \/ r.bytes_total >= BackendBytesMin
    \/ r.expected_concurrent_sessions >= SessionsMin
    \/ r.reuse_repo_across_sessions = TRUE

\* backend = "in_memory" unless ANY: ...
RemoteBackend(r) ==
    \/ r.vector_count_estimate >= BackendVectorMin
    \/ r.bytes_total >= BackendBytesMin
    \/ (r.expected_concurrent_sessions >= SessionsMin
        /\ r.vector_count_estimate >= SessionsVectorMin)
    \/ r.reuse_repo_across_sessions = TRUE

Backend(r) == IF RemoteBackend(r) THEN "vertex_vector_search" ELSE "in_memory"

\* the conditions of both rules, in the order of the rule text
Conditions(r) ==
    << [fired |-> r.loc_total >= LocTotalMin, text |-> "loc_total >= 80000"],
       [fired |-> r.file_count >= FileCountMin, text |-> "file_count >= 1500"],
       [fired |-> r.vector_count_estimate >= VectorCountMin,
        text |-> "vector_count_estimate >= 8000"],
       [fired |-> r.estimated_tokens_repo >= TokensMin,
        text |-> "estimated_tokens_repo >= 1500000"],
       [fired |-> r.vector_count_estimate >= BackendVectorMin,
        text |-> "vector_count_estimate >= 50000"],
       [fired |-> r.bytes_total >= BackendBytesMin, text |-> "bytes_total >= 1500000000"],
       [fired |-> (r.expected_concurrent_sessions >= SessionsMin
                   /\ r.vector_count_estimate >= SessionsVectorMin),
        text |-> "expected_concurrent_sessions >= 3 and vector_count_estimate >= 20000"],
       [fired |-> r.reuse_repo_across_sessions = TRUE,
        text |-> "reuse_repo_across_sessions"] >>

IsFired(c) == c.fired

Texts(cs) == [i \in 1..Len(cs) |-> cs[i].text]

\* reasons for the use_embeddings conditions only
ReasonsEmbeddingOnly(r) == Texts(SelectSeq(SubSeq(Conditions(r), 1, 4), IsFired))

\* Reasons: one 1-line reason for each condition that fired
Reasons(r) == Texts(SelectSeq(Conditions(r), IsFired))

Decide(r) ==
    [use_embeddings |-> UseEmbeddings(r), backend |-> Backend(r), reasons |-> Reasons(r)]

\* the sizer report of a repository of n lines, everything else below the
\* thresholds of the policy decider
RepoReport(n) ==
    [loc_total |-> n, file_count |-> 0, vector_count_estimate |-> 0,
     estimated_tokens_repo |-> 0, bytes_total |-> 0,
     expected_concurrent_sessions |-> 1,
     reuse_repo_across_sessions |-> FALSE]

\* the sessions work on a repository whose decision is use_embeddings = TRUE
LargeRepo ==
    /\ report = RepoReport(LocTotalMin)
    /\ decision = NoDecision
    /\ ppc = "idle"

\* the sessions work on a repository whose decision is use_embeddings = FALSE
SmallRepo ==
    /\ report = RepoReport(0)
    /\ decision = NoDecision
    /\ ppc = "idle"

Init ==
    SessInit /\ EmbIdle /\ ChunkIdle /\ IngIdle /\ LargeRepo /\ SearchIdle
    /\ RagIdle /\ QueryIdle /\ ChatIdle /\ ProxyIdle

InitSmallRepo ==
    SessInit /\ EmbIdle /\ ChunkIdle /\ IngIdle /\ SmallRepo /\ SearchIdle
    /\ RagIdle /\ QueryIdle /\ ChatIdle /\ ProxyIdle

(* ------------------------------------------------------------------ *)
(* Driver operations                                                   *)
(* ------------------------------------------------------------------ *)
\* ingest(root): the entry point of a session, also its restart
Ingest(s) ==
    /\ state' = [state EXCEPT ![s] = "INGESTED"]
    /\ lastAccess' = Touch(lastAccess, s)
    /\ hist' = [hist EXCEPT ![s] = @ \cup {"ingest"}]
    /\ last' = Result("ingest", s, "ok")
    /\ UNCHANGED <<now, useEmb, registries, builds, nextRet, configured, nonSessVars>>

\* size_and_decide(root): requires a prior ingest; the decision is the policy
\* decider's for the sizer report of the repository
SizeAndDecide(s) ==
    IF CanSize(state[s])
    THEN /\ useEmb' = [useEmb EXCEPT ![s] = Decide(report).use_embeddings]
         /\ state' = [state EXCEPT ![s] = "SIZED_AND_DECIDED"]
         /\ lastAccess' = Touch(lastAccess, s)
         /\ hist' = [hist EXCEPT ![s] = @ \cup {"size_and_decide"}]
         /\ last' = Result("size_and_decide", s, "ok")
         /\ UNCHANGED <<now, registries, builds, nextRet, configured, nonSessVars>>
    ELSE /\ last' = Result("size_and_decide", s, "PreconditionError")
         /\ UNCHANGED <<now, state, lastAccess, useEmb, registries, builds,
                        nextRet, configured, hist, nonSessVars>>

\* index(session) called out of order: rejected before index_repo is entered
IndexRejected(s) ==
    /\ ~CanIndex(state[s])
    /\ last' = Result("index", s, "PreconditionError")
    /\ UNCHANGED <<now, state, lastAccess, useEmb, registries, builds,
                   nextRet, configured, hist, nonSessVars>>

\* index(session): enters index_repo(session_id, code_map, chunks, decision);
\* texts = [c.text for c in chunks].  The decision is passed in (emb) and the
\* embedding step follows whatever it says: "we ALWAYS compute in-memory
\* embeddings"
IndexStart(w, s) ==
    /\ CanIndex(state[s])
    /\ builds[w].pc = "idle"
    /\ nextRet < MaxBuilds
    /\ nextRet' = nextRet + 1
    /\ builds' = [builds EXCEPT ![w] =
                    [pc |-> "embed", sid |-> s, batch |-> 0, tries |-> 0,
                     ret |-> nextRet + 1, gone |-> FALSE,
                     emb |-> useEmb[s]]]
    /\ lastAccess' = Touch(lastAccess, s)
    /\ UNCHANGED <<now, state, useEmb, registries, configured, last, hist, nonSessVars>>

\* a retry policy that allows one try too many
RetryAllowedOneMore(failed) == failed <= MaxTries

\* retry policy of embed_texts: after `failed` failed tries another one is made
RetryAllowed(failed) == failed < MaxTries

\* a stub that swallows the missing configuration
RaisesNever(cfg) == FALSE

\* without a configured SDK embed_texts is a stub that raises NotConfiguredError
Raises(cfg) == ~cfg

\* one try of the embedding call for the current batch, inside
\* vectors = embed_texts(texts, dim=embed_dim)
EmbedAttempt(w) ==
    LET b == builds[w] IN
    /\ b.pc = "embed"
    /\ IF Raises(configured)
       THEN \* the stub raises NotConfiguredError: no call goes out
            /\ builds' = [builds EXCEPT ![w] = Idle]
            /\ last' = Result("index", b.sid, "ConfigurationError")
       ELSE \/ \* the call succeeds: next batch, or all vectors are there
               /\ builds' = [builds EXCEPT ![w] =
                    [b EXCEPT !.tries = 0, !.batch = b.batch + 1,
                              !.pc = IF b.batch + 1 = NBatches
                                     THEN "build" ELSE "embed"]]
               /\ UNCHANGED last
            \/ \* 429 / 5xx, and tries are left: back off and retry
               /\ RetryAllowed(b.tries + 1)
               /\ builds' = [builds EXCEPT ![w] = [b EXCEPT !.tries = b.tries + 1]]
               /\ UNCHANGED last
            \/ \* 429 / 5xx on the last try: the call gives up
               /\ ~RetryAllowed(b.tries + 1)
               /\ builds' = [builds EXCEPT ![w] = Idle]
               /\ last' = Result("index", b.sid, "ConfigurationError")
    /\ UNCHANGED <<now, state, lastAccess, useEmb, registries, nextRet,
                   configured, hist, nonSessVars>>

\* retriever = build_retriever(chunks, vectors, code_map)
BuildRetriever(w) ==
    /\ builds[w].pc = "build"
    /\ builds' = [builds EXCEPT ![w] = [@ EXCEPT !.pc = "put"]]
    /\ UNCHANGED <<now, state, lastAccess, useEmb, registries, nextRet,
                   configured, last, hist, nonSessVars>>

\* SessionIndex.put(session_id, retriever)
PutRetriever(w) ==
    LET b == builds[w] IN
    /\ b.pc = "put"
    /\ registries' = PutEntry(registries, b.sid, b.ret)
    /\ state' = [state EXCEPT ![b.sid] = AfterPut(@)]
    /\ builds' = [builds EXCEPT ![w] = [b EXCEPT !.pc = "return"]]
    /\ UNCHANGED <<now, lastAccess, useEmb, nextRet, configured, last, hist, nonSessVars>>

\* return {session_id, vector_count, backend}
IndexReturn(w) ==
    LET b == builds[w] IN
    /\ b.pc = "return"
    /\ state' = [state EXCEPT ![b.sid] = AfterReturn(@)]
    /\ builds' = [builds EXCEPT ![w] = Idle]
    /\ hist' = [hist EXCEPT ![b.sid] = @ \cup {"index"}]
    /\ last' = Result("index", b.sid, "ok")
    /\ UNCHANGED <<now, lastAccess, useEmb, registries, nextRet, configured, nonSessVars>>

\* ask(session, query, k): only valid in READY, on a retriever the registry finds
Ask(s) ==
    IF CanAsk(state[s]) /\ Get(registries, lastAccess, now, s) # NoRet
    THEN /\ lastAccess' = Touch(lastAccess, s)
         /\ last' = Result("ask", s, "ok")
         /\ UNCHANGED <<now, state, useEmb, registries, builds, nextRet,
                        configured, hist, nonSessVars>>
    ELSE /\ last' = Result("ask", s, "PreconditionError")
         /\ UNCHANGED <<now, state, lastAccess, useEmb, registries, builds,
                        nextRet, configured, hist, nonSessVars>>

\* session end: SessionIndex.drop(session_id), the session is gone
Drop(s) ==
    /\ state[s] # "EMPTY" \/ Entries(registries, s) # {}
    /\ registries' = DropEntry(registries, s)
    /\ state' = [state EXCEPT ![s] = "EMPTY"]
    /\ builds' = MarkGone(builds, {s})
    /\ UNCHANGED <<now, lastAccess, useEmb, nextRet, configured, last, hist, nonSessVars>>

\* time passes; a session whose TTL runs out is EXPIRED from that moment
Tick ==
    /\ now < MaxTime
    /\ now' = now + 1
    /\ state' = ExpireSessions(state, lastAccess, now + 1)
    /\ builds' = MarkGone(builds,
                    {s \in Sessions : state[s] # "EXPIRED" /\ state'[s] = "EXPIRED"})
    /\ UNCHANGED <<lastAccess, useEmb, registries, nextRet, configured, last, hist, nonSessVars>>

\* TTL sweep of the registry
Sweep ==
    /\ registries # {}
    /\ registries' = SweepEntries(registries, lastAccess, now)
    /\ UNCHANGED <<now, state, lastAccess, useEmb, builds, nextRet,
                   configured, last, hist, nonSessVars>>

Next ==
    \/ \E s \in Sessions : Ingest(s)
    \/ \E s \in Sessions : SizeAndDecide(s)
    \/ \E s \in Sessions : IndexRejected(s)
    \/ \E w \in Workers, s \in Sessions : IndexStart(w, s)
    \/ \E w \in Workers : EmbedAttempt(w)
    \/ \E w \in Workers : BuildRetriever(w)
    \/ \E w \in Workers : PutRetriever(w)
    \/ \E w \in Workers : IndexReturn(w)
    \/ \E s \in Sessions : Ask(s)
    \/ \E s \in Sessions : Drop(s)
    \/ Tick
    \/ Sweep

Spec == Init /\ [][Next]_vars

\* the same operations on a repository below every threshold
SpecSmallRepo == InitSmallRepo /\ [][Next]_vars

(* ------------------------------------------------------------------ *)
(* embed_texts(texts, dim): batches, concurrent calls, re-assembly     *)
(* ------------------------------------------------------------------ *)
Min(a, b) == IF a < b THEN a ELSE b

Chars == {"a", "b"}
\* the texts a call may be given: strings of one or two characters
TextSet == {<<c>> : c \in Chars} \cup {<<c, d>> : c \in Chars, d \in {"x"}}

RECURSIVE SeqsUpTo(_, _)
SeqsUpTo(S, n) ==
    IF n = 0 THEN {<<>>}
    ELSE LET shorter == SeqsUpTo(S, n - 1) IN
         shorter \cup {Append(q, x) : q \in {r \in shorter : Len(r) = n - 1}, x \in S}

\* "cap each input ... (safe truncation by chars)"
Truncate(t) == SubSeq(t, 1, Min(Len(t), CharBudget))

\* the vector the backend computes for one (truncated) input
Vec(t) == <<"vec", Truncate(t)>>

\* number of batches of n inputs at batch size bs
NumBatches(n, bs) == (n + bs - 1) \div bs

\* the inputs of batch b (1-based) at batch size bs
Slice(ts, b, bs) == SubSeq(ts, (b - 1) * bs + 1, Min(b * bs, Len(ts)))

\* the backend answers one call with one vector per input, in the call's order
EmbedCall(batch) == [i \in 1..Len(batch) |-> Vec(batch[i])]

RECURSIVE ConcatBatches(_, _, _)
ConcatBatches(d, order, k) ==
    IF k = 0 THEN <<>> ELSE ConcatBatches(d, order, k - 1) \o d[order[k]]

\* a re-assembly in the order the answers came in
AssembleByArrival(d, nb) == ConcatBatches(d, arrival, nb)

\* "Preserve input order": the answers are put together by batch number
Assemble(d, nb) == ConcatBatches(d, [b \in 1..nb |-> b], nb)

EmbedInit ==
    /\ SessInit
    /\ ChunkIdle
    /\ IngIdle
    /\ PolIdle
    /\ SearchIdle
    /\ RagIdle
    /\ QueryIdle
    /\ ChatIdle
    /\ ProxyIdle
    /\ texts \in SeqsUpTo(TextSet, MaxTexts)
    /\ bsize \in 1..MaxBatch
    /\ inflight = {}
    /\ done = <<>>
    /\ arrival = <<>>
    /\ out = <<>>
    /\ epc = "run"

\* the call for batch b goes out, within the concurrency limit
IssueBatch(b) ==
    /\ epc = "run"
    /\ b \notin inflight
    /\ b \notin DOMAIN done
    /\ Cardinality(inflight) < MaxInflight
    /\ inflight' = inflight \cup {b}
    /\ UNCHANGED <<texts, bsize, done, arrival, out, epc, nonEmbVars>>

\* the answer of batch b comes in
CompleteBatch(b) ==
    /\ epc = "run"
    /\ b \in inflight
    /\ inflight' = inflight \ {b}
    /\ done' = done @@ (b :> EmbedCall(Slice(texts, b, bsize)))
    /\ arrival' = Append(arrival, b)
    /\ UNCHANGED <<texts, bsize, out, epc, nonEmbVars>>

\* the call of batch b fails for good: embed_texts raises, nothing is returned
FailBatch(b) ==
    /\ epc = "run"
    /\ b \in inflight
    /\ inflight' = {}
    /\ epc' = "failed"
    /\ UNCHANGED <<texts, bsize, done, arrival, out, nonEmbVars>>

\* every batch is answered: the list is put together and returned
EmbedReturn ==
    /\ epc = "run"
    /\ DOMAIN done = 1..NumBatches(Len(texts), bsize)
    /\ out' = Assemble(done, NumBatches(Len(texts), bsize))
    /\ epc' = "done"
    /\ UNCHANGED <<texts, bsize, inflight, done, arrival, nonEmbVars>>

EmbedNext ==
    \/ \E b \in 1..NumBatches(Len(texts), bsize) : IssueBatch(b)
    \/ \E b \in 1..NumBatches(Len(texts), bsize) : CompleteBatch(b)
    \/ \E b \in 1..NumBatches(Len(texts), bsize) : FailBatch(b)
    \/ EmbedReturn

SpecEmbed == EmbedInit /\ [][EmbedNext]_vars

\* C8: embed_texts returns a list as long as its input in which position i
\* holds the vector of texts[i], for every batch size and every order in
\* which the answers of concurrently issued batches come in.
C8_OrderPreserved ==
    epc = "done"
      => /\ Len(out) = Len(texts)
         /\ \A i \in 1..Len(texts) : out[i] = Vec(texts[i])

\* a call of several batches returned after its answers came in out of order,
\* on inputs whose vectors differ
C8_Witness ==
    /\ epc = "done"
    /\ Len(texts) = MaxTexts
    /\ Len(arrival) >= 2
    /\ arrival[1] > arrival[2]
    /\ Vec(texts[1]) # Vec(texts[Len(texts)])

(* ------------------------------------------------------------------ *)
(* Properties of the session lifecycle                                 *)
(* ------------------------------------------------------------------ *)
RejectedAsk(s) == last' = Result("ask", s, "PreconditionError")

\* C1: in every sequence of driver operations on one session,
\* size_and_decide succeeds only after a successful ingest, index runs and
\* succeeds only after a successful ingest and size_and_decide, ask succeeds
\* only after a successful index; a call made before that is rejected.
C1_Order ==
    [][\A s \in Sessions :
        /\ (/\ last'.res = "ok" /\ last'.op = "size_and_decide"
            /\ builds' = builds /\ now' = now /\ SizeAndDecide(s))
              => "ingest" \in hist[s]
        /\ (/\ "ingest" \notin hist[s] /\ last'.op = "size_and_decide"
            /\ builds' = builds /\ now' = now /\ SizeAndDecide(s))
              => last' = Result("size_and_decide", s, "PreconditionError")
        /\ (\E w \in Workers :
               \/ nextRet' # nextRet /\ IndexStart(w, s)
               \/ builds[w].sid = s /\ builds[w].pc = "return" /\ IndexReturn(w))
              => {"ingest", "size_and_decide"} \subseteq hist[s]
        /\ (~ {"ingest", "size_and_decide"} \subseteq hist[s])
              => ~ CanIndex(state[s])
        /\ (/\ last'.res = "ok" /\ last'.op = "ask"
            /\ builds' = builds /\ now' = now /\ Ask(s)) => "index" \in hist[s]
        /\ (/\ "index" \notin hist[s] /\ last'.op = "ask"
            /\ builds' = builds /\ now' = now /\ Ask(s)) => RejectedAsk(s)
      ]_vars

\* a full cycle ingest, size_and_decide, index, ask has succeeded
C1_Witness ==
    /\ last = Result("ask", "s1", "ok")
    /\ hist["s1"] = {"ingest", "size_and_decide", "index"}

\* C2: ask on a session that is not READY raises PreconditionError, starts no
\* ingest, sizing, embedding or index build, and leaves the session state and
\* the registry as they were.
C2_AskNotReady ==
    [][\A s \in Sessions :
        (Ask(s) /\ state[s] # "READY")
          => /\ RejectedAsk(s)
             /\ UNCHANGED <<state, registries, builds, nextRet, useEmb,
                            lastAccess, hist>>
      ]_vars

\* ask was rejected on a session that is sized and has a build in progress
C2_Witness ==
    /\ last = Result("ask", "s1", "PreconditionError")
    /\ state["s1"] = "SIZED_AND_DECIDED"
    /\ \E w \in Workers : builds[w].pc = "embed" /\ builds[w].sid = "s1"

\* C3: an EXPIRED session stays out of service: ask on it raises
\* PreconditionError even if it was READY before, and only a fresh ingest
\* brings it back to a state from which the pipeline can proceed (a drop
\* leaves it EMPTY, which again only an ingest leaves).
C3_ExpiredForGood ==
    [][\A s \in Sessions :
        state[s] \in {"EXPIRED", "EMPTY"}
          => /\ Ask(s) => RejectedAsk(s)
             /\ state'[s] \notin {"EXPIRED", "EMPTY"} => Ingest(s)
             /\ state[s] = "EXPIRED" /\ state'[s] = "EMPTY" => Drop(s)
      ]_vars

\* ask was rejected on an expired session that had been indexed, while a build
\* of that session was still in progress
C3_Witness ==
    /\ last = Result("ask", "s1", "PreconditionError")
    /\ state["s1"] = "EXPIRED"
    /\ "index" \in hist["s1"]
    /\ \E w \in Workers : builds[w].pc = "put" /\ builds[w].sid = "s1"

\* C4: the registry holds at most one retriever per session id, and a put is
\* one step after which the registry binds the session to the new retriever:
\* the binding never changes except to the retriever of a put or to absent
\* by a drop or a sweep.
C4_OnePerSession ==
    /\ [](\A s \in Sessions : Cardinality(Entries(registries, s)) <= 1)
    /\ [][\A s \in Sessions :
            /\ \A w \in Workers :
                 (PutRetriever(w) /\ builds[w].sid = s)
                   => Entries(registries', s) = {[sid |-> s, ret |-> builds[w].ret]}
            /\ Entries(registries', s) # Entries(registries, s)
                 => \/ \E w \in Workers : PutRetriever(w) /\ builds[w].sid = s
                    \/ Entries(registries', s) = {} /\ (Drop(s) \/ Sweep)
         ]_vars

\* two builds of one session have both put their retriever: the second put
\* replaced the binding of the first
C4_Witness ==
    /\ builds["w1"].pc = "return" /\ builds["w2"].pc = "return"
    /\ builds["w1"].sid = builds["w2"].sid
    /\ Cardinality(registries) = 1

\* C5: get returns "not found" whenever the session has no entry or its last
\* access is older than the session TTL; a rejected ask creates no retriever
\* and starts no build; a TTL sweep removes exactly the entries whose last
\* access is older than the TTL.
C5_GetAndSweep ==
    /\ [](\A s \in Sessions :
            (Entries(registries, s) = {} \/ now - lastAccess[s] > SessionTTL)
              => Get(registries, lastAccess, now, s) = NoRet)
    /\ [][/\ \A s \in Sessions :
               (Ask(s) /\ Get(registries, lastAccess, now, s) = NoRet)
                 => RejectedAsk(s) /\ UNCHANGED <<registries, builds, nextRet>>
          /\ Sweep => registries' =
                 {e \in registries : now - lastAccess[e.sid] <= SessionTTL}
         ]_vars

\* an entry whose last access is older than the TTL is still in the registry
\* and ask was rejected
C5_Witness ==
    /\ registries # {}
    /\ now - lastAccess["s1"] > SessionTTL
    /\ last = Result("ask", "s1", "PreconditionError")

\* C6: for one session id at most one index build is in progress at a time.
C6_OneBuildAtATime ==
    \A w1, w2 \in Workers :
        (w1 # w2 /\ builds[w1].pc # "idle" /\ builds[w2].pc # "idle")
          => builds[w1].sid # builds[w2].sid

\* C7 (its safety half): an index build whose session was dropped or has
\* expired issues no new embedding call.
C7_NoCallAfterGone ==
    [][\A w \in Workers :
        (EmbedAttempt(w) /\ ~Raises(configured)) => ~builds[w].gone
      ]_vars

\* C9: the tries of one embedding call never exceed MaxTries; a success ends
\* the retrying; a failure is retried while tries are left; when the last try
\* has failed the call stops and index fails with a configuration-level error.
C9_RetryCap ==
    /\ [](\A w \in Workers : builds[w].tries < MaxTries)
    /\ [][\A w \in Workers :
            (EmbedAttempt(w) /\ configured)
              => \/ /\ builds'[w].tries = 0
                    /\ builds'[w].batch = builds[w].batch + 1
                 \/ /\ builds[w].tries + 1 < MaxTries
                    /\ builds'[w] = [builds[w] EXCEPT !.tries = @ + 1]
                 \/ /\ builds[w].tries + 1 = MaxTries
                    /\ builds'[w] = Idle
                    /\ last' = Result("index", builds[w].sid, "ConfigurationError")
         ]_vars

\* index failed with a reachable backend: every try of one call was used up
C9_Witness ==
    /\ configured
    /\ last = Result("index", "s1", "ConfigurationError")

\* C10: with no embedding backend reachable an index build of a session whose
\* decision demands embeddings fails on its first step with a
\* ConfigurationError, without a retry, and the session gets no retriever and
\* does not become INDEXED.
C10_NotConfigured ==
    /\ [](\A s \in Sessions :
            (~configured /\ useEmb[s])
              => /\ Entries(registries, s) = {}
                 /\ state[s] \notin {"INDEXED", "READY"}
                 /\ \A w \in Workers :
                      builds[w].sid = s
                        => builds[w].pc = "embed" /\ builds[w].tries = 0)
    /\ [][\A w \in Workers :
            (EmbedAttempt(w) /\ ~configured /\ useEmb[builds[w].sid])
              => /\ builds'[w] = Idle
                 /\ last' = Result("index", builds[w].sid, "ConfigurationError")
                 /\ UNCHANGED <<state, registries>>
         ]_vars

\* index failed with no backend on a session whose decision demands embeddings
C10_Witness ==
    /\ ~configured
    /\ useEmb["s1"]
    /\ state["s1"] = "SIZED_AND_DECIDED"
    /\ last = Result("index", "s1", "ConfigurationError")

\* C11: index calls the embedder only when the decision handed to it has
\* use_embeddings = TRUE: no try of an embedding call is made by a build whose
\* decision says FALSE.
C11_EmbedOnlyIfDecided ==
    [][\A w \in Workers :
          (EmbedAttempt(w) /\ ~Raises(configured)) => builds[w].emb]_vars

(* ------------------------------------------------------------------ *)
(* split_code_windows(text, lang, chunk_loc, overlap_loc)              *)
(* ------------------------------------------------------------------ *)
MaxLoc == 7         \* longest text tried with the small window settings
MaxWindow == 3      \* largest small window setting tried

ChunkLoc == 300     \* chunk_loc: int = 300
OverlapLoc == 50    \* overlap_loc: int = 50

\* text lengths around the window boundaries of the default setting
DefaultLocs ==
    {0, 1} \cup
    {m + d : m \in {OverlapLoc, ChunkLoc, 2 * ChunkLoc - OverlapLoc,
                    3 * ChunkLoc - 2 * OverlapLoc},
             d \in {-1, 0, 1}}

\* last line of the window that starts at line st, in a text of n lines
WindowEnd(st, n, w) == Min(st + w - 1, n)

\* windows that follow one another without common lines
NextStartNoOverlap(st, w, o) == st + w

\* first line of the window after the one that starts at st
NextStart(st, w, o) == st + (w - o)

\* the windows from line st on: the last one is the first to reach line n
RECURSIVE WindowsFrom(_, _, _, _)
WindowsFrom(st, n, w, o) ==
    IF WindowEnd(st, n, w) >= n
    THEN << <<st, WindowEnd(st, n, w)>> >>
    ELSE << <<st, WindowEnd(st, n, w)>> >> \o WindowsFrom(NextStart(st, w, o), n, w, o)

\* line-based windows; at least 1 chunk (an empty text yields the window 1..0)
SplitCodeWindows(n, w, o) == WindowsFrom(1, n, w, o)

\* the lines of a window
WindowLines(win) == win[1]..win[2]

ChunkInit ==
    /\ SessInit
    /\ EmbIdle
    /\ IngIdle
    /\ PolIdle
    /\ SearchIdle
    /\ RagIdle
    /\ QueryIdle
    /\ ChatIdle
    /\ ProxyIdle
    /\ \/ /\ chunk_loc \in 1..MaxWindow
          /\ overlap_loc \in 0..(MaxWindow - 1)
          /\ overlap_loc < chunk_loc
          /\ nlines \in 0..MaxLoc
       \/ /\ chunk_loc = ChunkLoc
          /\ overlap_loc = OverlapLoc
          /\ nlines \in DefaultLocs
    /\ windows = <<>>
    /\ cpc = "run"

SplitFile ==
    /\ cpc = "run"
    /\ windows' = SplitCodeWindows(nlines, chunk_loc, overlap_loc)
    /\ cpc' = "done"
    /\ UNCHANGED <<nlines, chunk_loc, overlap_loc, nonChunkVars>>

ChunkNext == SplitFile

SpecChunk == ChunkInit /\ [][ChunkNext]_vars

\* C12: for every text length n >= 0 and every setting 0 <= overlap < window
\* the chunker returns at least one window, the windows' line ranges together
\* are exactly 1..n, and two consecutive windows have exactly `overlap` lines
\* in common unless the later one is cut short by the end of the text.
C12_WindowsCover ==
    cpc = "done" =>
        /\ Len(windows) >= 1
        /\ UNION {WindowLines(windows[i]) : i \in 1..Len(windows)} = 1..nlines
        /\ \A i \in 1..(Len(windows) - 1) :
              \/ Cardinality(WindowLines(windows[i]) \cap WindowLines(windows[i + 1]))
                    = overlap_loc
              \/ Cardinality(WindowLines(windows[i + 1])) < chunk_loc

\* a text of several windows with a real overlap whose last window is cut short
C12_Witness ==
    /\ cpc = "done"
    /\ Len(windows) >= 3
    /\ overlap_loc >= 1
    /\ Cardinality(WindowLines(windows[Len(windows)])) < chunk_loc

(* ------------------------------------------------------------------ *)
(* repo_io (safe_join, read_text_file), ingest_repo and Sizer.measure  *)
(* ------------------------------------------------------------------ *)
MaxFiles == 2       \* longest file list of one pass

MaxBytes == 1500000 \* read_text_file(..., max_bytes: int = 1_500_000)

\* relative paths, as component lists: plain, with a ".." that stays inside
\* the root, and with ".." components that lead out of it
PathSet == { <<"src", "app.py">>,
             <<"src", "..", "docs", "x.md">>,
             <<"src", "..", "..", "etc">> }

\* text lengths (in lines) of the files of a pass
IngestLocs == {0, ChunkLoc, ChunkLoc + 1, 2 * ChunkLoc - OverlapLoc + 1}

\* normalised components of rel below the root, or <<"..">> once rel has
\* left the root
RECURSIVE Normalize(_, _)
Normalize(rel, stack) ==
    IF rel = <<>> THEN stack
    ELSE IF Head(rel) = ".."
         THEN IF stack = <<>> THEN <<"..">>
              ELSE Normalize(Tail(rel), SubSeq(stack, 1, Len(stack) - 1))
         ELSE Normalize(Tail(rel), Append(stack, Head(rel)))

\* safe_join: the path is refused when it resolves outside the root
Escapes(rel) == Normalize(rel, <<>>) = <<"..">>

\* read_text_file: "if >max_bytes or binary -> raise ValueError"
TooBig(f) == f.bytes > MaxBytes

\* why read_text_file refuses the file, or "none" when it returns the text
ReadError(f) ==
    IF Escapes(f.path) THEN "path escapes root"
    ELSE IF TooBig(f) THEN "file too large"
    ELSE IF f.binary THEN "binary file"
    ELSE "none"

FileSet ==
    { [path |-> p, bytes |-> b, binary |-> bin, loc |-> n] :
        p \in PathSet, b \in {MaxBytes, MaxBytes + 1}, bin \in BOOLEAN,
        n \in IngestLocs }

\* list_source_files: a list of distinct paths
RECURSIVE FileLists(_)
FileLists(n) ==
    IF n = 0 THEN {<<>>}
    ELSE FileLists(n - 1) \cup
         { Append(fs, f) : fs \in {l \in FileLists(n - 1) : Len(l) = n - 1},
                           f \in FileSet }

DistinctPaths(fs) ==
    \A i, j \in 1..Len(fs) : fs[i].path = fs[j].path => i = j

\* the pass stops at the first file that cannot be read
AfterSkipAbort(i, n) == n

\* the loop goes on with the next file after a skip
AfterSkip(i, n) == i

\* one Chunk per window of the file (id = repo:commit:path#start-end)
ChunksOf(f) ==
    LET ws == SplitCodeWindows(f.loc, ChunkLoc, OverlapLoc) IN
    [k \in 1..Len(ws) |->
        [path |-> f.path, start_line |-> ws[k][1], end_line |-> ws[k][2]]]

CeilDiv(a, b) == -((-a) \div b)

\* an estimate without the floor of one chunk per file
FileEstimateNoFloor(loc) == CeilDiv(loc - OverlapLoc, ChunkLoc - OverlapLoc)

\* an estimate that divides by the window and forgets the overlap
FileEstimateNoOverlap(loc) ==
    IF CeilDiv(loc, ChunkLoc) > 1 THEN CeilDiv(loc, ChunkLoc) ELSE 1

\* max(1, ceil((loc - overlap) / (window - overlap)))
FileEstimate(loc) ==
    IF CeilDiv(loc - OverlapLoc, ChunkLoc - OverlapLoc) > 1
    THEN CeilDiv(loc - OverlapLoc, ChunkLoc - OverlapLoc) ELSE 1

IngestInit ==
    /\ SessInit
    /\ EmbIdle
    /\ ChunkIdle
    /\ PolIdle
    /\ SearchIdle
    /\ RagIdle
    /\ QueryIdle
    /\ ChatIdle
    /\ ProxyIdle
    /\ files \in {fs \in FileLists(MaxFiles) : DistinctPaths(fs)}
    /\ fidx = 0
    /\ chunks = <<>>
    /\ skipped = <<>>
    /\ file_count = 0
    /\ unreadable = 0
    /\ chunk_estimate = 0
    /\ ipc = "ingest"

\* ingest_repo, step 3: read text (skip >max_bytes/binary), split, emit chunks
IngestFile ==
    /\ ipc = "ingest"
    /\ fidx < Len(files)
    /\ LET f == files[fidx + 1] IN
         IF ReadError(f) # "none"
         THEN /\ skipped' = Append(skipped, [path |-> f.path, reason |-> ReadError(f)])
              /\ fidx' = AfterSkip(fidx + 1, Len(files))
              /\ UNCHANGED chunks
         ELSE /\ chunks' = chunks \o ChunksOf(f)
              /\ fidx' = fidx + 1
              /\ UNCHANGED skipped
    /\ UNCHANGED <<files, file_count, unreadable, chunk_estimate, ipc, nonIngVars>>

\* ingest_repo, steps 4-6: return CodeMap and all chunks
IngestReturn ==
    /\ ipc = "ingest"
    /\ fidx = Len(files)
    /\ ipc' = "measure"
    /\ fidx' = 0
    /\ UNCHANGED <<files, chunks, skipped, file_count, unreadable,
                   chunk_estimate, nonIngVars>>

\* measure: count one file, or skip an unreadable one and count it apart
MeasureFile ==
    /\ ipc = "measure"
    /\ fidx < Len(files)
    /\ LET f == files[fidx + 1] IN
         IF ReadError(f) # "none"
         THEN /\ unreadable' = unreadable + 1
              /\ UNCHANGED <<file_count, chunk_estimate>>
         ELSE /\ file_count' = file_count + 1
              /\ chunk_estimate' = chunk_estimate + FileEstimate(f.loc)
              /\ UNCHANGED unreadable
    /\ fidx' = fidx + 1
    /\ UNCHANGED <<files, chunks, skipped, ipc, nonIngVars>>

\* measure returns the SizerReport
MeasureReturn ==
    /\ ipc = "measure"
    /\ fidx = Len(files)
    /\ ipc' = "done"
    /\ UNCHANGED <<files, fidx, chunks, skipped, file_count, unreadable,
                   chunk_estimate, nonIngVars>>

IngestNext ==
    \/ IngestFile
    \/ IngestReturn
    \/ MeasureFile
    \/ MeasureReturn

SpecIngest == IngestInit /\ [][IngestNext]_vars

\* C13: measure adds, for every file it measures, the least c >= 1 with
\* c * (window - overlap) >= loc - overlap, i.e. max(1, ceil((loc - overlap) /
\* (window - overlap))) with window 300 and overlap 50: at least 1 per file,
\* exactly 1 for a file of no lines, nothing for a file it skips, so that
\* chunk_estimate >= the number of measured files.
C13_ChunkEstimate ==
    /\ [](chunk_estimate >= file_count)
    /\ [][MeasureFile =>
            LET f == files[fidx + 1]
                c == chunk_estimate' - chunk_estimate
            IN  IF file_count' = file_count
                THEN c = 0
                ELSE /\ c >= 1
                     /\ f.loc = 0 => c = 1
                     /\ c * (ChunkLoc - OverlapLoc) >= f.loc - OverlapLoc
                     /\ c > 1 => (c - 1) * (ChunkLoc - OverlapLoc) < f.loc - OverlapLoc]_vars

\* a pass that measured an empty file and a file of two windows
C13_Witness ==
    /\ ipc = "done"
    /\ file_count = 2
    /\ chunk_estimate = 3
    /\ \E i \in 1..Len(files) : files[i].loc = 0 /\ ReadError(files[i]) = "none"

\* the path has, at some point, more ".." components than names before them
OutsideRoot(p) ==
    \E k \in 1..Len(p) :
        Cardinality({i \in 1..k : p[i] = ".."}) > Cardinality({i \in 1..k : p[i] # ".."})

\* C20: when ingest_repo has returned, every enumerated file whose path
\* escapes the root, that is binary or that is above the size ceiling is in
\* the skip record with a reason and has no chunk, and every other enumerated
\* file has at least one chunk: a skip never ends the pass.
C20_SkipNotAbort ==
    ipc \in {"measure", "done"} =>
        \A i \in 1..Len(files) :
            LET f == files[i] IN
            IF OutsideRoot(f.path) \/ f.binary \/ f.bytes > MaxBytes
            THEN /\ \E k \in 1..Len(skipped) :
                       /\ skipped[k].path = f.path
                       /\ skipped[k].reason \in {"path escapes root", "file too large",
                                                 "binary file"}
                 /\ \A k \in 1..Len(chunks) : chunks[k].path # f.path
            ELSE \E k \in 1..Len(chunks) : chunks[k].path = f.path

\* a pass whose first file was skipped and whose second file was ingested
C20_Witness ==
    /\ ipc = "done"
    /\ Len(files) = 2
    /\ Len(skipped) = 1
    /\ skipped[1].path = files[1].path
    /\ Len(chunks) >= 2
    /\ chunks[1].path = files[2].path
    /\ ".." \in {files[2].path[i] : i \in 1..Len(files[2].path)}

(* ------------------------------------------------------------------ *)
(* Policy decider: inputs at the thresholds                            *)
(* ------------------------------------------------------------------ *)
\* values right below and at a threshold
Around(t) == {t - 1, t}

PolicyInit ==
    /\ SessInit
    /\ EmbIdle
    /\ ChunkIdle
    /\ IngIdle
    /\ SearchIdle
    /\ RagIdle
    /\ QueryIdle
    /\ ChatIdle
    /\ ProxyIdle
    /\ report \in
         [loc_total : Around(LocTotalMin),
          file_count : Around(FileCountMin),
          vector_count_estimate :
              Around(VectorCountMin) \cup Around(SessionsVectorMin)
                  \cup Around(BackendVectorMin),
          estimated_tokens_repo : Around(TokensMin),
          bytes_total : Around(BackendBytesMin),
          expected_concurrent_sessions : {1} \cup Around(SessionsMin),
          reuse_repo_across_sessions : BOOLEAN]
    /\ decision = NoDecision
    /\ ppc = "run"

\* read sizer.json (and the overrides), write policy.json
DecidePolicy ==
    /\ ppc = "run"
    /\ decision' = Decide(report)
    /\ ppc' = "done"
    /\ UNCHANGED <<report, nonPolVars>>

PolicyNext == DecidePolicy

SpecPolicy == PolicyInit /\ [][PolicyNext]_vars

\* C14: use_embeddings is TRUE if and only if loc_total >= 80000 or
\* file_count >= 1500 or vector_count_estimate >= 8000 or
\* estimated_tokens >= 1500000 (each threshold inclusive).
C14_UseEmbeddings ==
    ppc = "done" =>
        (decision.use_embeddings = TRUE <=>
            \/ report.loc_total >= 80000
            \/ report.file_count >= 1500
            \/ report.vector_count_estimate >= 8000
            \/ report.estimated_tokens_repo >= 1500000)

\* loc_total exactly at its threshold, the other three right below theirs
C14_Witness ==
    /\ ppc = "done"
    /\ report.loc_total = 80000
    /\ report.file_count = 1499
    /\ report.vector_count_estimate = 7999
    /\ report.estimated_tokens_repo = 1499999
    /\ decision.use_embeddings = TRUE

FiredRules(r) ==
    {n \in 1..8 :
        \/ n = 1 /\ r.loc_total >= 80000
        \/ n = 2 /\ r.file_count >= 1500
        \/ n = 3 /\ r.vector_count_estimate >= 8000
        \/ n = 4 /\ r.estimated_tokens_repo >= 1500000
        \/ n = 5 /\ r.vector_count_estimate >= 50000
        \/ n = 6 /\ r.bytes_total >= 1500000000
        \/ n = 7 /\ r.expected_concurrent_sessions >= 3 /\ r.vector_count_estimate >= 20000
        \/ n = 8 /\ r.reuse_repo_across_sessions}

\* C16: the reasons list has exactly one entry per rule that fired, over the
\* use_embeddings rules and the backend rules, without repeats, and is empty
\* when no rule fired.
C16_Reasons ==
    ppc = "done" =>
        /\ Len(decision.reasons) = Cardinality(FiredRules(report))
        /\ \A i, j \in 1..Len(decision.reasons) :
              decision.reasons[i] = decision.reasons[j] => i = j
        /\ FiredRules(report) = {} <=> decision.reasons = <<>>

\* one use_embeddings rule and one backend rule fired: two reasons
C16_Witness ==
    /\ ppc = "done"
    /\ FiredRules(report) = {1, 6}
    /\ Len(decision.reasons) = 2

(* ------------------------------------------------------------------ *)
(* HybridRetriever.search: candidate lists, reciprocal rank fusion     *)
(* ------------------------------------------------------------------ *)
MaxChunks == 3      \* chunks of the index
MaxK == 3           \* largest k asked for

RrfK == 60          \* "RRF formula: 1/(k+rank) where k=60"

\* chunk ids, each named by its place in the lexicographic order of the ids
ChunkIds == 1..MaxChunks

\* candidate lists: rankings of some of the chunks, best first
RECURSIVE Rankings(_, _)
Rankings(S, n) ==
    IF n = 0 THEN {<<>>}
    ELSE Rankings(S, n - 1) \cup
         { Append(r, c) : r \in {q \in Rankings(S, n - 1) : Len(q) = n - 1},
                          c \in S }

NoRepeat(r) == \A i, j \in 1..Len(r) : r[i] = r[j] => i = j

\* scores are kept as exact multiples of 1 / ScoreScale
RECURSIVE ScaleUpTo(_)
ScaleUpTo(n) == IF n = 0 THEN 1 ELSE (RrfK + n) * ScaleUpTo(n - 1)

ScoreScale == ScaleUpTo(MaxChunks)

\* rank of c in the list (1 for the first entry), 0 when c is not in it
RankIn(list, c) ==
    IF \E i \in 1..Len(list) : list[i] = c
    THEN CHOOSE i \in 1..Len(list) : list[i] = c
    ELSE 0

\* 1/(k + rank) for a list that holds c, nothing for a list that does not
Share(list, c) ==
    IF RankIn(list, c) = 0 THEN 0 ELSE ScoreScale \div (RrfK + RankIn(list, c))

\* a dense list that is used whenever vectors were stored
DenseListNoEmbedCheck(q) == IF q.vectors THEN q.dense ELSE <<>>

\* "If vectors exist and embed_fn provided: get ANN candidates (cosine)"
DenseList(q) == IF q.vectors /\ q.embed_fn THEN q.dense ELSE <<>>

\* "Get BM25 candidates" (none when BM25 is disabled)
LexicalList(q) == IF q.bm25 THEN q.lexical ELSE <<>>

\* a fusion that keeps the better of the two shares
FusedMax(q, c) ==
    IF Share(LexicalList(q), c) > Share(DenseList(q), c)
    THEN Share(LexicalList(q), c) ELSE Share(DenseList(q), c)

\* "Merge via reciprocal rank fusion"
Fused(q, c) == Share(LexicalList(q), c) + Share(DenseList(q), c)

Candidates(q) ==
    {LexicalList(q)[i] : i \in 1..Len(LexicalList(q))} \cup
    {DenseList(q)[i] : i \in 1..Len(DenseList(q))}

\* an order that puts the larger chunk id first on a tie
BeforeLargerIdOnTie(q, c, d) ==
    \/ Fused(q, c) > Fused(q, d)
    \/ Fused(q, c) = Fused(q, d) /\ c > d

\* c comes before d: higher fused score, on a tie the smaller chunk id
Before(q, c, d) ==
    \/ Fused(q, c) > Fused(q, d)
    \/ Fused(q, c) = Fused(q, d) /\ c < d

RECURSIVE Sorted(_, _)
Sorted(q, S) ==
    IF S = {} THEN <<>>
    ELSE LET top == CHOOSE c \in S : \A d \in S \ {c} : Before(q, c, d)
         IN <<top>> \o Sorted(q, S \ {top})

\* scored results, best first, at most k of them
SearchResults(q) ==
    LET order == Sorted(q, Candidates(q))
        n == Min(q.k, Len(order))
    IN [i \in 1..n |-> [chunk_id |-> order[i], score |-> Fused(q, order[i])]]

SearchInit ==
    /\ SessInit
    /\ EmbIdle
    /\ ChunkIdle
    /\ IngIdle
    /\ PolIdle
    /\ RagIdle
    /\ QueryIdle
    /\ ChatIdle
    /\ ProxyIdle
    /\ squery \in
         [lexical : {r \in Rankings(ChunkIds, MaxChunks) : NoRepeat(r)},
          dense : {r \in Rankings(ChunkIds, MaxChunks) : NoRepeat(r)},
          vectors : BOOLEAN, embed_fn : BOOLEAN, bm25 : BOOLEAN,
          k : 1..MaxK]
    /\ results = <<>>
    /\ spc = "run"

\* search(query, k, embed_fn)
Search ==
    /\ spc = "run"
    /\ results' = SearchResults(squery)
    /\ spc' = "done"
    /\ UNCHANGED <<squery, nonSearchVars>>

SearchNext == Search

SpecSearch == SearchInit /\ [][SearchNext]_vars

\* C17: with fused score = sum over the lists that hold the chunk of
\* 1/(60 + rank), ranks from 1, a chunk that is first in both the lexical and
\* the dense list scores 2/61 and heads the result, and a chunk that is first
\* in only one of the lists scores strictly less than 2/61, in every search.
C17_FirstInBothWins ==
    spc = "done" =>
        \A i \in 1..Len(results) :
            LET c == results[i].chunk_id
                firstLex == squery.bm25 /\ squery.lexical # <<>>
                            /\ squery.lexical[1] = c
                firstDen == squery.vectors /\ squery.embed_fn /\ squery.dense # <<>>
                            /\ squery.dense[1] = c
            IN  /\ (firstLex /\ firstDen) =>
                      (61 * results[i].score = 2 * ScoreScale /\ i = 1)
                /\ (firstLex /\ ~firstDen) \/ (firstDen /\ ~firstLex) =>
                      61 * results[i].score < 2 * ScoreScale

\* a hybrid search whose two lists have the same head and differ below it
C17_Witness ==
    /\ spc = "done"
    /\ squery.bm25 /\ squery.vectors /\ squery.embed_fn
    /\ Len(squery.lexical) >= 2 /\ Len(squery.dense) >= 2
    /\ squery.lexical[1] = squery.dense[1]
    /\ squery.lexical[2] # squery.dense[2]
    /\ Len(results) >= 2
    /\ results[1].chunk_id = squery.lexical[1]

\* the first n entries of a list
FirstN(list, n) == SubSeq(list, 1, Min(n, Len(list)))

\* the results are the first k entries of the list, in its order, each with
\* the score 1/(60 + rank)
IsRankOrderOf(list) ==
    /\ [i \in 1..Len(results) |-> results[i].chunk_id] = FirstN(list, squery.k)
    /\ \A i \in 1..Len(results) : results[i].score * (60 + i) = ScoreScale

\* C18: a search that has returned without vectors or without a query
\* embedding (lexical-only) holds the lexical list in its own rank order, one
\* that has returned with BM25 disabled (vector-only) holds the dense list in
\* its own rank order, and the missing list adds nothing to a score.
C18_SingleListModes ==
    spc = "done" =>
        /\ (squery.bm25 /\ ~(squery.vectors /\ squery.embed_fn)) =>
              IsRankOrderOf(squery.lexical)
        /\ (~squery.bm25 /\ squery.vectors /\ squery.embed_fn) =>
              IsRankOrderOf(squery.dense)

\* a lexical-only search over an index that has vectors but no query
\* embedding, where the dense ranking would have ordered the chunks otherwise
C18_Witness ==
    /\ spc = "done"
    /\ squery.bm25 /\ squery.vectors /\ ~squery.embed_fn
    /\ Len(squery.lexical) >= 2 /\ Len(squery.dense) >= 2
    /\ squery.lexical[1] # squery.dense[1]
    /\ Len(results) >= 2

(* ------------------------------------------------------------------ *)
(* RAGAnswerer.answer: doc pack assembly, sources, token count         *)
(* ------------------------------------------------------------------ *)
MaxHits == 2        \* chunks search returns to one answer call
MaxNeighbors == 1   \* neighbor chunks added from the code map
MaxBudget == 3      \* largest small token budget tried

CharsPerToken == 4  \* "Token estimation: ~4 chars per token"
FastLimit == 200000 \* "fast if <200k, deep otherwise"

\* a chunk as the pack sees it: its path and the characters of its header
\* and text
PackChunks ==
    { [path |-> p, chars |-> n] :
        p \in {"src/app.py", "src/util/helpers.js"},
        n \in {3, 8, CharsPerToken * FastLimit} }

Budgets == (1..MaxBudget) \cup {FastLimit + MaxBudget}

\* token estimate of a text of n characters
Tokens(n) == n \div CharsPerToken

\* a check of the pack as it is, before the chunk is added
FitsBeforeAdding(chars, c, budget) == Tokens(chars) <= budget

\* the pack still respects the budget with chunk c added
Fits(chars, c, budget) == Tokens(chars + c.chars) <= budget

\* "Retrieve top-k chunks via retriever.search(). If code_map provided,
\* expand with neighbor chunks."
Retrieved(in) == IF in.code_map THEN in.hits \o in.neighbors ELSE in.hits

\* the chunks of cands that go into the pack, in order, until one does not fit
RECURSIVE AssemblePack(_, _, _)
AssemblePack(cands, chars, budget) ==
    IF cands = <<>> \/ ~Fits(chars, Head(cands), budget) THEN <<>>
    ELSE <<Head(cands)>> \o AssemblePack(Tail(cands), chars + Head(cands).chars, budget)

RECURSIVE PackChars(_)
PackChars(p) == IF p = <<>> THEN 0 ELSE Head(p).chars + PackChars(Tail(p))

\* the paths of the pack, each once, in the order of first appearance
RECURSIVE DedupPaths(_, _)
DedupPaths(p, seen) ==
    IF p = <<>> THEN <<>>
    ELSE IF Head(p).path \in seen THEN DedupPaths(Tail(p), seen)
         ELSE <<Head(p).path>> \o DedupPaths(Tail(p), seen \cup {Head(p).path})

\* RAGResponse.sources
Sources(p) == DedupPaths(p, {})

\* "Choose model based on token count (fast if <200k, deep otherwise)"
ChooseModel(tokens) == IF tokens < FastLimit THEN "fast" ELSE "deep"

RagInit ==
    /\ SessInit
    /\ EmbIdle
    /\ ChunkIdle
    /\ IngIdle
    /\ PolIdle
    /\ SearchIdle
    /\ QueryIdle
    /\ ChatIdle
    /\ ProxyIdle
    /\ rinput \in
         [hits : SeqsUpTo(PackChunks, MaxHits),
          neighbors : SeqsUpTo(PackChunks, MaxNeighbors),
          code_map : BOOLEAN,
          budget : Budgets]
    /\ pack = <<>>
    /\ response = NoResponse
    /\ rpc = "run"

\* answer(query, code_map)
Answer ==
    /\ rpc = "run"
    /\ LET p == AssemblePack(Retrieved(rinput), 0, rinput.budget) IN
         /\ pack' = p
         /\ response' = [sources |-> Sources(p),
                         token_count |-> Tokens(PackChars(p)),
                         model |-> ChooseModel(Tokens(PackChars(p)))]
    /\ rpc' = "done"
    /\ UNCHANGED <<rinput, nonRagVars>>

RagNext == Answer

SpecRag == RagInit /\ [][RagNext]_vars

\* C19: after every answer call the doc pack holds no more tokens than the
\* budget, whatever was retrieved, and the sources list holds no path twice
\* and only paths of chunks that are in the pack.
C19_PackWithinBudget ==
    rpc = "done" =>
        /\ PackChars(pack) < 4 * (rinput.budget + 1)
        /\ response.token_count <= rinput.budget
        /\ \A i, j \in 1..Len(response.sources) :
              response.sources[i] = response.sources[j] => i = j
        /\ \A i \in 1..Len(response.sources) :
              \E k \in 1..Len(pack) : pack[k].path = response.sources[i]

\* more was retrieved than the budget lets in, and the pack holds two chunks
\* of one file
C19_Witness ==
    /\ rpc = "done"
    /\ rinput.code_map
    /\ Len(pack) = 2
    /\ Len(pack) < Len(rinput.hits) + Len(rinput.neighbors)
    /\ pack[1].path = pack[2].path
    /\ Len(response.sources) = 1

\* C23: the results of a search are sorted by score in descending order, two
\* results of equal score are in ascending order of chunk id, and every
\* candidate left out comes after the last result in that order: the list is
\* fixed by the query and the index.
C23_SortedWithTieBreak ==
    spc = "done" =>
        /\ \A i, j \in 1..Len(results) :
              i < j =>
                \/ results[i].score > results[j].score
                \/ /\ results[i].score = results[j].score
                   /\ results[i].chunk_id < results[j].chunk_id
        /\ \A c \in Candidates(squery) \ {results[i].chunk_id : i \in 1..Len(results)} :
              /\ Len(results) = squery.k
              /\ \/ Fused(squery, c) < results[Len(results)].score
                 \/ /\ Fused(squery, c) = results[Len(results)].score
                    /\ c > results[Len(results)].chunk_id

\* two results with the same fused score, the larger id first in the lexical
\* list
C23_Witness ==
    /\ spc = "done"
    /\ Len(results) >= 2
    /\ results[1].score = results[2].score
    /\ squery.bm25 /\ squery.lexical # <<>>
    /\ squery.lexical[1] = results[2].chunk_id

\* C26: an index build that finishes after its session was dropped or has
\* expired does not put a retriever: the put step of a build whose session
\* was dropped or expired while it ran leaves the registry as it was, so get
\* stays "not found" for that session.
C26_NoPutAfterGone ==
    [][\A w \in Workers :
          (builds[w].gone /\ builds[w].pc = "put" /\ PutRetriever(w))
            => registries' = registries]_vars

\* C27: with the default window of 300 lines and overlap of 50, the per-file
\* estimate of the Sizer is the number of windows the chunker emits for a
\* file of that length, for the lengths around every window boundary and for
\* every file of the pass; when ingest and measure have both gone over the
\* same files, chunk_estimate is the number of chunks ingest produced.
C27_EstimateIsChunkCount ==
    /\ \A k \in 0..3 : \A d \in {-1, 0, 1} :
          LET n == k * (ChunkLoc - OverlapLoc) + OverlapLoc + d
          IN  FileEstimate(n) = Len(SplitCodeWindows(n, ChunkLoc, OverlapLoc))
    /\ FileEstimate(0) = Len(SplitCodeWindows(0, ChunkLoc, OverlapLoc))
    /\ \A i \in 1..Len(files) : FileEstimate(files[i].loc) = Len(ChunksOf(files[i]))
    /\ ipc = "done" => chunk_estimate = Len(chunks)

\* both passes are over, one file took three windows and another one window
C27_Witness ==
    /\ ipc = "done"
    /\ file_count = 2
    /\ Len(chunks) = 4
    /\ chunk_estimate = 4
    /\ \E i \in 1..Len(files) : Len(ChunksOf(files[i])) = 3

(* ------------------------------------------------------------------ *)
(* Query path: search, one-hop neighbor expansion, optional reranking  *)
(* ------------------------------------------------------------------ *)
NumPaths == 3       \* paths of the index that the code map relates
NeighborCap == 2    \* neighbors one expansion may add

RerankTopK == 80    \* RERANK_TOPK, "Number of candidates to rerank"

\* path of a chunk: the chunks beyond the last path belong to that path
PathOf(c) == Min(c, NumPaths)

\* CodeMap.deps: none, a chain 1 -> 2 -> 3, one importer, a fan
CodeMaps ==
    { {}, {<<1, 2>>, <<2, 3>>}, {<<2, 1>>}, {<<1, 3>>, <<3, 2>>} }

\* neighbors that also take in the neighbors of the neighbors
NeighborsTwoHops(cm, p) ==
    LET one == {q \in 1..NumPaths : <<p, q>> \in cm \/ <<q, p>> \in cm}
    IN  (one \cup {r \in 1..NumPaths :
                    \E q \in one : <<q, r>> \in cm \/ <<r, q>> \in cm}) \ {p}

\* one hop: the paths p imports (deps) and the paths that import p (importers)
Neighbors(cm, p) ==
    {q \in 1..NumPaths : <<p, q>> \in cm \/ <<q, p>> \in cm} \ {p}

\* "each neighbor attributed a lower derived score than its source"
NeighborScore(s) == s \div 2

IdsOf(list) == {list[i].chunk_id : i \in 1..Len(list)}

\* place of the best result that has chunk c as a neighbor, 0 when none has
SourceOf(res, cm, c) ==
    LET from == {i \in 1..Len(res) :
                    PathOf(c) \in Neighbors(cm, PathOf(res[i].chunk_id))}
    IN  IF from = {} THEN 0 ELSE CHOOSE i \in from : \A j \in from : i <= j

\* the chunks of neighboring paths that are not results already
NeighborEntries(res, cm) ==
    { [chunk_id |-> c, score |-> NeighborScore(res[SourceOf(res, cm, c)].score)] :
        c \in {d \in ChunkIds \ IdsOf(res) : SourceOf(res, cm, d) # 0} }

\* higher score first, on a tie the smaller chunk id
EntryBefore(a, b) ==
    \/ a.score > b.score
    \/ a.score = b.score /\ a.chunk_id < b.chunk_id

RECURSIVE SortEntries(_)
SortEntries(S) ==
    IF S = {} THEN <<>>
    ELSE LET top == CHOOSE a \in S : \A b \in S \ {a} : EntryBefore(a, b)
         IN <<top>> \o SortEntries(S \ {top})

Take(list, n) == SubSeq(list, 1, Min(n, Len(list)))

\* expand the top results, capped, re-sort, return the top k
ExpandNeighbors(res, cm, k) ==
    LET added == Take(SortEntries(NeighborEntries(res, cm)), NeighborCap)
    IN  Take(SortEntries({res[i] : i \in 1..Len(res)} \cup
                         {added[i] : i \in 1..Len(added)}), k)

RerankErrors == {"timeout", "bad_response"}
RerankOutcomes == {"disabled", "ok"} \cup RerankErrors

\* the order a successful reranking returns: here the top candidates reversed
RerankOrder(base) ==
    LET n == Min(RerankTopK, Len(base))
    IN  [i \in 1..Len(base) |-> IF i <= n THEN base[n + 1 - i] ELSE base[i]]

\* a decorator that returns nothing when the reranking fails
FallbackEmpty(base) == <<>>

\* fail-open: the undecorated result
Fallback(base) == base

QueryInit ==
    /\ SessInit
    /\ EmbIdle
    /\ ChunkIdle
    /\ IngIdle
    /\ PolIdle
    /\ RagIdle
    /\ ChatIdle
    /\ ProxyIdle
    /\ squery \in
         [lexical : {r \in Rankings(ChunkIds, MaxChunks) : NoRepeat(r)},
          dense : {r \in Rankings(ChunkIds, MaxChunks) : NoRepeat(r)},
          vectors : {TRUE}, embed_fn : {TRUE}, bm25 : {TRUE},
          k : 1..MaxK]
    /\ results = <<>>
    /\ spc = "run"
    /\ code_map = {}
    /\ expanded = <<>>
    /\ reranked = NoRerank
    /\ returned = <<>>
    /\ qpc = "search"

\* search, step 5: one-hop neighbors from the code map, re-sort, top k
Expand ==
    /\ qpc = "search"
    /\ spc = "done"
    /\ \E cm \in CodeMaps :
         /\ code_map' = cm
         /\ expanded' = ExpandNeighbors(results, cm, squery.k)
    /\ qpc' = "rerank"
    /\ UNCHANGED <<reranked, returned, nonQueryVars>>

\* the reranking decorator around the base retriever
Rerank ==
    /\ qpc = "rerank"
    /\ \E o \in RerankOutcomes :
         /\ reranked' = [outcome |-> o, error |-> "none",
                         logged |-> (o \in RerankErrors)]
         /\ returned' = CASE o = "disabled" -> expanded
                          [] o = "ok" -> RerankOrder(expanded)
                          [] OTHER -> Fallback(expanded)
    /\ qpc' = "returned"
    /\ UNCHANGED <<code_map, expanded, nonQueryVars>>

QueryNext == Search \/ Expand \/ Rerank

SpecQuery == QueryInit /\ [][QueryNext]_vars

\* C24: after expansion every entry is a result of the fusion, with its own
\* score, or a chunk whose path is a direct dep or a direct importer of the
\* path of a result that scores strictly higher; the list is in score order
\* and has at most k entries.
C24_OneHopLowerScoreTopK ==
    qpc \in {"rerank", "returned"} =>
        /\ Len(expanded) <= squery.k
        /\ \A i \in 1..Len(expanded) :
              \/ \E j \in 1..Len(results) : results[j] = expanded[i]
              \/ /\ expanded[i].chunk_id \notin IdsOf(results)
                 /\ \E j \in 1..Len(results) :
                       LET p == PathOf(results[j].chunk_id)
                           q == PathOf(expanded[i].chunk_id)
                       IN  /\ <<p, q>> \in code_map \/ <<q, p>> \in code_map
                           /\ expanded[i].score < results[j].score
        /\ \A i, j \in 1..Len(expanded) :
              i < j => EntryBefore(expanded[i], expanded[j])

\* the chain 1 -> 2 -> 3 with chunk 1 as the only result: chunk 2 was added,
\* chunk 3, two hops away, was not, although there was room for it
C24_Witness ==
    /\ qpc = "rerank"
    /\ code_map = {<<1, 2>>, <<2, 3>>}
    /\ IdsOf(results) = {1}
    /\ IdsOf(expanded) = {1, 2}
    /\ squery.k = 3

\* C21: when the optional reranking fails, whatever the error, the query
\* returns the list of the base retriever in the base order and no error
\* reaches the caller; the failure is logged.
C21_RerankFailsOpen ==
    (qpc = "returned" /\ reranked.outcome \in RerankErrors) =>
        /\ returned = expanded
        /\ reranked.error = "none"
        /\ reranked.logged

\* a failed reranking of a list of two or more entries, which a successful
\* reranking would have reordered
C21_Witness ==
    /\ qpc = "returned"
    /\ reranked.outcome = "timeout"
    /\ Len(expanded) >= 2
    /\ returned = expanded
    /\ RerankOrder(expanded) # expanded

(* ------------------------------------------------------------------ *)
(* Chat page (ui/pages/index.tsx): sendMessage and the stream handlers *)
(* ------------------------------------------------------------------ *)
MaxParts == 3       \* answers, with their text pieces and tools, on one page

\* what the user has typed when sendMessage runs
UserInputs == {"", "   ", "hello", " load the repo "}

\* input.trim()
Trim(txt) ==
    CASE txt = "   " -> ""
      [] txt = " load the repo " -> "load the repo"
      [] OTHER -> txt

\* userMessage.toLowerCase().includes('repo') || ...includes('load')
MentionsRepo(txt) == txt = "load the repo"

ToolNames == {"read_file", ""}

\* event.data of one message event; valid is FALSE when JSON.parse throws
StreamEvents ==
    [type : {"llm_output"}, text : {"", "tok"}, name : {""}, output : {"none"},
     valid : {TRUE}]
    \cup [type : {"tool_start"}, text : {""}, name : ToolNames, output : {"none"},
          valid : {TRUE}]
    \cup [type : {"tool_end"}, text : {""}, name : ToolNames,
          output : {"text", "mermaid"}, valid : {TRUE}]
    \cup [type : {"complete", "ping"}, text : {""}, name : {""}, output : {"none"},
          valid : {TRUE}]
    \cup [type : {"error"}, text : {"", "backend failed"}, name : {""},
          output : {"none"}, valid : {TRUE}]
    \cup [type : {"garbled"}, text : {""}, name : {""}, output : {"none"},
          valid : {FALSE}]

UserMessage(txt) ==
    [role |-> "user", content |-> <<txt>>, tools |-> <<>>, diagrams |-> <<>>]

\* { role: 'assistant', content: '', tools: [], diagrams: [] }
AssistantMessage ==
    [role |-> "assistant", content |-> <<>>, tools |-> <<>>, diagrams |-> <<>>]

\* tools.find(t => t.name === data.name && t.status === 'running'), 0 for none
FindRunning(tools, name) ==
    LET hits == {i \in 1..Len(tools) :
                    tools[i].name = name /\ tools[i].status = "running"}
    IN  IF hits = {} THEN 0 ELSE CHOOSE i \in hits : \A j \in hits : i <= j

\* one run of the updater body on the last message, which it changes in place
ApplyEvent(m, ev) ==
    CASE ev.type = "llm_output" ->
           [m EXCEPT !.content = IF ev.text = "" THEN @ ELSE Append(@, ev.text)]
      [] ev.type = "tool_start" ->
           [m EXCEPT !.tools =
               Append(@, [name |-> IF ev.name = "" THEN "unknown" ELSE ev.name,
                          status |-> "running", output |-> "none"])]
      [] ev.type = "tool_end" ->
           LET i == FindRunning(m.tools, ev.name) IN
           IF i = 0 THEN m
           ELSE [m EXCEPT !.tools[i] = [@ EXCEPT !.status = "complete",
                                                 !.output = ev.output],
                          !.diagrams = IF ev.output = "mermaid"
                                       THEN Append(@, "mermaid") ELSE @]
      [] ev.type = "error" ->
           [m EXCEPT !.content =
               <<IF ev.text = "" THEN "An error occurred" ELSE ev.text>>]
      [] OTHER -> m

\* times React runs one updater: once, and in a development build with
\* reactStrictMode possibly twice, on the same previous state
Runs(s) == IF s THEN {1, 2} ELSE {1}

RECURSIVE ApplyTimes(_, _, _)
ApplyTimes(m, ev, n) ==
    IF n = 0 THEN m ELSE ApplyTimes(ApplyEvent(m, ev), ev, n - 1)

\* an updater that works on the first assistant message
UpdateFirstAssistant(msgs, ev, n) ==
    [msgs EXCEPT ![2] = ApplyTimes(@, ev, n)]

\* setMessages(prev => ...): lastMessage = newMessages[newMessages.length - 1]
UpdateLast(msgs, ev, n) ==
    [msgs EXCEPT ![Len(msgs)] = ApplyTimes(@, ev, n)]

\* sendMessage returns early on an empty input only
IgnoredWhenBlank(txt, streaming, guard) == Trim(txt) = ""

\* sendMessage returns early
Ignored(txt, streaming, guard) == Trim(txt) = "" \/ streaming \/ guard

\* a close() that leaves the connection open
CloseNothing(sources, e) == sources

Close(sources, e) == IF e = 0 THEN sources ELSE [sources EXCEPT ![e] = "closed"]

OpenSources == {e \in 1..Len(eventSources) : eventSources[e] = "open"}

ChatInit ==
    /\ SessInit
    /\ EmbIdle
    /\ ChunkIdle
    /\ IngIdle
    /\ PolIdle
    /\ SearchIdle
    /\ RagIdle
    /\ QueryIdle
    /\ ProxyIdle
    /\ strict \in BOOLEAN
    /\ mounted = TRUE
    /\ messages = <<>>
    /\ isStreaming = FALSE
    /\ eventSourceRef = 0
    /\ eventSources = <<>>
    /\ strictModeGuard = FALSE
    /\ fetches = 0
    /\ backendStatus = "null"

\* the answers so far, with their text pieces and tools
RECURSIVE Parts(_)
Parts(msgs) ==
    IF msgs = <<>> THEN 0
    ELSE Parts(Tail(msgs)) +
         (IF Head(msgs).role = "assistant"
          THEN 1 + Len(Head(msgs).content) + Len(Head(msgs).tools) ELSE 0)

\* sendMessage, with the text of the input box
SendMessage(txt) ==
    /\ mounted
    /\ IF Ignored(txt, isStreaming, strictModeGuard)
       THEN UNCHANGED <<messages, isStreaming, eventSourceRef, eventSources,
                        strictModeGuard>>
       ELSE /\ Parts(messages) < MaxParts
            /\ strictModeGuard' = TRUE
            /\ isStreaming' = TRUE
            /\ messages' = messages \o <<UserMessage(Trim(txt)), AssistantMessage>>
            /\ eventSources' = Append(Close(eventSources, eventSourceRef), "open")
            /\ eventSourceRef' = Len(eventSources) + 1
    /\ UNCHANGED <<strict, mounted, fetches, backendStatus, nonChatVars>>

\* setTimeout(() => { strictModeGuard.current = false }, 100)
GuardTimeout ==
    /\ strictModeGuard
    /\ strictModeGuard' = FALSE
    /\ UNCHANGED <<strict, mounted, messages, isStreaming, eventSourceRef,
                   eventSources, fetches, backendStatus, nonChatVars>>

\* the event makes an answer longer
Grows(ev) == ev.type = "tool_start" \/ (ev.type = "llm_output" /\ ev.text # "")

\* eventSource.onmessage of the open EventSource e
OnMessage(e, ev) ==
    /\ mounted
    /\ e \in OpenSources
    /\ Grows(ev) => Parts(messages) < MaxParts
    /\ IF ~ev.valid \/ messages[Len(messages)].role # "assistant"
       THEN UNCHANGED <<messages, isStreaming, eventSourceRef, eventSources, fetches>>
       ELSE \E n \in Runs(strict) :
              /\ messages' = UpdateLast(messages, ev, n)
              /\ IF ev.type \in {"complete", "error"}
                 THEN /\ isStreaming' = FALSE
                      /\ eventSources' = Close(eventSources, e)
                      /\ eventSourceRef' = 0
                 ELSE UNCHANGED <<isStreaming, eventSourceRef, eventSources>>
              /\ fetches' = IF /\ ev.type = "complete"
                               /\ MentionsRepo(messages[Len(messages) - 1].content[1])
                            THEN fetches + n ELSE fetches
    /\ UNCHANGED <<strict, mounted, strictModeGuard, backendStatus, nonChatVars>>

\* eventSource.onerror of the open EventSource e
OnError(e) ==
    /\ mounted
    /\ e \in OpenSources
    /\ isStreaming' = FALSE
    /\ eventSources' = Close(eventSources, eventSourceRef)
    /\ eventSourceRef' = 0
    /\ messages' =
         [messages EXCEPT ![Len(messages)] =
            IF @.role = "assistant" /\ @.content = <<>>
            THEN [@ EXCEPT !.content = <<"Connection error. Please try again.">>]
            ELSE @]
    /\ UNCHANGED <<strict, mounted, strictModeGuard, fetches, backendStatus,
                   nonChatVars>>

\* the answer to one fetch('/api/backend/status') arrives
StatusFetched(ok) ==
    /\ fetches > 0
    /\ fetches' = fetches - 1
    /\ backendStatus' = IF ok /\ mounted THEN "set" ELSE backendStatus
    /\ UNCHANGED <<strict, mounted, messages, isStreaming, eventSourceRef,
                   eventSources, strictModeGuard,
                   nonChatVars>>

\* cleanup of the effect on unmount
Unmount ==
    /\ mounted
    /\ mounted' = FALSE
    /\ eventSources' = Close(eventSources, eventSourceRef)
    /\ eventSourceRef' = 0
    /\ UNCHANGED <<strict, messages, isStreaming, strictModeGuard, fetches,
                   backendStatus, nonChatVars>>

ChatNext ==
    \/ \E txt \in UserInputs : SendMessage(txt)
    \/ GuardTimeout
    \/ \E e \in 1..Len(eventSources) : \E ev \in StreamEvents : OnMessage(e, ev)
    \/ \E e \in 1..Len(eventSources) : OnError(e)
    \/ \E ok \in BOOLEAN : StatusFetched(ok)
    \/ Unmount

SpecChat == ChatInit /\ [][ChatNext]_vars

\* C28: while the page is mounted isStreaming is true exactly while the
\* EventSource opened by the last send is open; a complete event, an error
\* event and a connection error each set isStreaming to false, close the
\* EventSource and clear its reference, and then a send with a text is
\* ignored only for as long as the guard of the previous send is on.
C28_StreamingIffOpen ==
    /\ [](mounted =>
            /\ isStreaming <=> OpenSources # {}
            /\ isStreaming <=> eventSourceRef # 0
            /\ OpenSources \subseteq {eventSourceRef} \cap {Len(eventSources)})
    /\ [][\A e \in 1..Len(eventSources) :
            (\/ OnError(e)
             \/ \E ev \in {x \in StreamEvents : x.type \in {"complete", "error"}} :
                   OnMessage(e, ev))
              => /\ ~isStreaming'
                 /\ eventSources'[e] = "closed"
                 /\ eventSourceRef' = 0
                 /\ Ignored("hello", isStreaming', strictModeGuard') <=> strictModeGuard'
         ]_vars

\* the first stream ended with a complete event and a second send went through
C28_Witness ==
    /\ mounted
    /\ eventSources = <<"closed", "open">>
    /\ isStreaming
    /\ eventSourceRef = 2
    /\ fetches > 0

\* C22: at most one EventSource is open at any time; a send while a stream is
\* in progress or while the guard of the previous send is on changes nothing;
\* any other send with a text creates exactly one EventSource, and every
\* EventSource that was open before it is closed.
C22_OneStreamPerSend ==
    /\ [](Cardinality(OpenSources) <= 1)
    /\ [][\A txt \in UserInputs :
            SendMessage(txt) =>
               IF isStreaming \/ strictModeGuard \/ Trim(txt) = ""
               THEN UNCHANGED chatVars
               ELSE /\ Len(eventSources') = Len(eventSources) + 1
                    /\ eventSources'[Len(eventSources')] = "open"
                    /\ eventSourceRef' = Len(eventSources')
                    /\ \A e \in 1..Len(eventSources) : eventSources'[e] = "closed"
         ]_vars

\* two sends went through: one EventSource each, the first closed by its
\* stream's end, the second open, its guard still on
C22_Witness ==
    /\ eventSources = <<"closed", "open">>
    /\ Len(messages) = 4
    /\ strictModeGuard
    /\ eventSourceRef = 2

\* C29: a step that keeps the number of messages leaves every message but
\* the last, and every user message, as it was, and when it changes the last
\* message that message is the assistant placeholder of the send that opened
\* the one open stream; the number of messages changes only on a send, by
\* one user message followed by one assistant message; an event whose data
\* is not valid JSON changes nothing.
C29_OnlyLastMessage ==
    /\ [](/\ Len(messages) = 2 * Len(eventSources)
          /\ \A i \in 1..Len(messages) :
                messages[i].role = IF i % 2 = 1 THEN "user" ELSE "assistant")
    /\ [][/\ Len(messages') = Len(messages) =>
               /\ \A i \in 1..Len(messages) :
                     (i < Len(messages) \/ messages[i].role = "user")
                       => messages'[i] = messages[i]
               /\ messages' # messages =>
                     /\ eventSources[Len(eventSources)] = "open"
                     /\ messages[2 * Len(eventSources)].role = "assistant"
                     /\ \E e \in OpenSources :
                           OnError(e) \/ \E ev \in StreamEvents : OnMessage(e, ev)
          /\ Len(messages') # Len(messages) =>
               \E txt \in UserInputs :
                  /\ messages' = messages \o <<UserMessage(Trim(txt)), AssistantMessage>>
                  /\ SendMessage(txt)
          /\ \A e \in OpenSources : \A ev \in {x \in StreamEvents : ~x.valid} :
               OnMessage(e, ev) => UNCHANGED
                  <<messages, isStreaming, eventSourceRef, eventSources,
                    strictModeGuard, fetches, backendStatus>>
         ]_vars

\* the first answer has a tool; the error event of the second stream wrote
\* its message into the second answer only
C29_Witness ==
    /\ Len(messages) = 4
    /\ messages[2].tools # <<>>
    /\ messages[2].content = <<>>
    /\ messages[4].content = <<"backend failed">>
    /\ messages[4].tools = <<>>

\* C25: a tool_start event appends one tool with status running; a tool_end
\* event turns to complete the first tool of its name that is running, and
\* no other; with no running tool of that name it changes no tool and adds
\* no diagram; no event turns a complete tool back to running.
C25_ToolTimeline ==
    [][\A e \in 1..Len(eventSources) : \A ev \in StreamEvents :
          OnMessage(e, ev) =>
            LET old == messages[Len(messages)]
                new == messages'[Len(messages)]
                i == FindRunning(old.tools, ev.name)
            IN  /\ ev.type = "tool_start" =>
                      /\ Len(new.tools) = Len(old.tools) + 1
                      /\ SubSeq(new.tools, 1, Len(old.tools)) = old.tools
                      /\ new.tools[Len(new.tools)].status = "running"
                /\ ev.type = "tool_end" =>
                      /\ Len(new.tools) = Len(old.tools)
                      /\ \A j \in 1..Len(old.tools) :
                            j # i => new.tools[j] = old.tools[j]
                      /\ i = 0 => new.diagrams = old.diagrams
                      /\ i # 0 => new.tools[i].status = "complete"
                /\ \A j \in 1..Len(old.tools) :
                      old.tools[j].status = "complete"
                        => new.tools[j].status = "complete"
      ]_vars

(* ------------------------------------------------------------------ *)
(* Chat stream proxy (ui/pages/api): POST /chat/stream passed through  *)
(* ------------------------------------------------------------------ *)
MaxStream == 2      \* chunks the backend streams to one request

\* a chunk of bytes: whole characters, possibly after the second byte of a
\* character split by the chunk boundary (lead) and before the first byte of
\* one (tail)
StreamChunks == [text : {<<>>, <<"a">>}, lead : BOOLEAN, tail : BOOLEAN]

\* byte streams the backend can send: a chunk starts with the rest of a
\* character exactly when the chunk before it ended inside one
ByteStreams ==
    {cs \in SeqsUpTo(StreamChunks, MaxStream) :
        \A i \in 1..Len(cs) :
            cs[i].lead = (IF i = 1 THEN FALSE ELSE cs[i - 1].tail)}

\* decoder.decode(value, { stream: true }): the characters completed by this
\* chunk; the first byte of a split character is held back
Decode(chunk, pending) ==
    (IF pending /\ chunk.lead THEN <<"e">> ELSE <<>>) \o chunk.text

\* res.status(code).json({ error }) on a response whose headers are not sent
SendJson(res, code, error) ==
    [res EXCEPT !.statusCode = code, !.contentType = "application/json",
                !.headersSent = TRUE, !.sentStatus = code, !.json = error,
                !.ended = TRUE]

\* res.write(text): the first write sends the headers with res.statusCode
Write(res, text) ==
    [res EXCEPT !.headersSent = TRUE,
                !.sentStatus = IF res.headersSent THEN @ ELSE res.statusCode,
                !.body = Append(@, text)]

ProxyInit ==
    /\ SessInit
    /\ EmbIdle
    /\ ChunkIdle
    /\ IngIdle
    /\ PolIdle
    /\ SearchIdle
    /\ RagIdle
    /\ QueryIdle
    /\ ChatIdle
    /\ preq \in
         { r \in [method : {"GET", "POST"},
                  backend : {"unreachable", "not_ok", "no_body", "ok"},
                  chunks : ByteStreams,
                  fail_at : -1..MaxStream] :
             /\ r.fail_at <= Len(r.chunks)
             /\ (r.method # "POST" \/ r.backend # "ok")
                  => (r.chunks = <<>> /\ r.fail_at = -1) }
    /\ pres = FreshResponse
    /\ preader = [read |-> 0, pending |-> FALSE]
    /\ hpc = "entry"

\* if (req.method !== 'POST') return res.status(405).json(...)
Entry ==
    /\ hpc = "entry"
    /\ IF preq.method # "POST"
       THEN /\ pres' = SendJson(pres, 405, "Method not allowed")
            /\ hpc' = "done"
       ELSE /\ hpc' = "fetch"
            /\ UNCHANGED pres
    /\ UNCHANGED <<preq, preader, nonProxyVars>>

\* await fetch(...); if (!response.ok) throw; setHeader x 3; getReader()
FetchBackend ==
    /\ hpc = "fetch"
    /\ IF preq.backend \in {"unreachable", "not_ok"}
       THEN /\ hpc' = "catch"
            /\ UNCHANGED pres
       ELSE /\ pres' = [pres EXCEPT !.contentType = "text/event-stream"]
            /\ hpc' = IF preq.backend = "no_body" THEN "catch" ELSE "read"
    /\ UNCHANGED <<preq, preader, nonProxyVars>>

\* one turn of the loop: await reader.read(), decode, res.write
ReadChunk ==
    /\ hpc = "read"
    /\ IF preader.read = preq.fail_at
       THEN /\ hpc' = "catch"
            /\ UNCHANGED <<pres, preader>>
       ELSE IF preader.read = Len(preq.chunks)
       THEN /\ hpc' = "end"
            /\ UNCHANGED <<pres, preader>>
       ELSE LET chunk == preq.chunks[preader.read + 1] IN
            /\ pres' = Write(pres, Decode(chunk, preader.pending))
            /\ preader' = [read |-> preader.read + 1, pending |-> chunk.tail]
            /\ hpc' = "read"
    /\ UNCHANGED <<preq, nonProxyVars>>

\* res.end()
End ==
    /\ hpc = "end"
    /\ pres' = [pres EXCEPT !.headersSent = TRUE,
                            !.sentStatus = IF pres.headersSent THEN @
                                           ELSE pres.statusCode,
                            !.ended = TRUE]
    /\ hpc' = "done"
    /\ UNCHANGED <<preq, preader, nonProxyVars>>

\* catch (error) { res.status(500).json(...) }: once headers are sent,
\* status() still sets res.statusCode and json() throws on setHeader; the
\* framework then leaves the response open or ends it with its own text
Catch ==
    /\ hpc = "catch"
    /\ IF ~pres.headersSent
       THEN pres' = SendJson(pres, 500, "Failed to connect to backend")
       ELSE \E ends \in BOOLEAN :
              pres' = [pres EXCEPT !.statusCode = 500, !.thrown = TRUE,
                                   !.ended = ends,
                                   !.body = IF ends
                                            THEN Append(@, <<"Internal Server Error">>)
                                            ELSE @]
    /\ hpc' = "done"
    /\ UNCHANGED <<preq, preader, nonProxyVars>>

ProxyNext == Entry \/ FetchBackend \/ ReadChunk \/ End \/ Catch

SpecProxy == ProxyInit /\ [][ProxyNext]_vars

\* the characters of the chunks up to chunk n, as a decoder that is never
\* flushed yields them, one entry per chunk
RECURSIVE Decoded(_, _)
Decoded(cs, n) ==
    IF n = 0 THEN <<>>
    ELSE Append(Decoded(cs, n - 1),
                Decode(cs[n], IF n = 1 THEN FALSE ELSE cs[n - 1].tail))

\* C30: the handler starts exactly one response per request: 405 with a
\* JSON body for a method other than POST; 500 with a JSON error body when
\* the backend is unreachable, answers non-OK or fails before anything was
\* written; otherwise an event stream with the chunks written in read order,
\* then ended. Once anything has been written to the stream the handler
\* calls neither status nor json.
C30_OneResponse ==
    /\ pres.body # <<>> =>
          (pres.statusCode = 200 /\ ~pres.thrown /\ pres.json = "none")
    /\ hpc = "done" =>
         /\ pres.ended /\ pres.headersSent
         /\ preq.method # "POST" =>
               (/\ pres.sentStatus = 405
                /\ pres.json = "Method not allowed"
                /\ pres.body = <<>>)
         /\ (/\ preq.method = "POST"
             /\ preq.backend # "ok" \/ preq.fail_at = 0) =>
               (/\ pres.sentStatus = 500
                /\ pres.json = "Failed to connect to backend"
                /\ pres.body = <<>>)
         /\ (preq.method = "POST" /\ preq.backend = "ok" /\ preq.fail_at # 0) =>
               (/\ pres.sentStatus = 200
                /\ pres.contentType = "text/event-stream"
                /\ pres.json = "none"
                /\ pres.body = Decoded(preq.chunks, preader.read))

====
